---- MODULE Spec2Model ----
(***************************************************************************)
(* AI-Video-Generator: the generation task lifecycle.                     *)
(*                                                                         *)
(* Two deployments of the same request handler are modelled:              *)
(*   - the persistent server (backend/main.py) with its VideoGenerator    *)
(*     (backend/models/video_generator.py), which keeps the in-memory     *)
(*     task table generation_tasks and writes video files;                *)
(*   - the serverless handler (backend/api/index.py), which is stateless  *)
(*     and returns the video inline, base64-encoded.                      *)
(* A request is a coroutine: it runs atomically up to its next await      *)
(* (the provider call in the executor, or the mock's asyncio.sleep).      *)
(***************************************************************************)
EXTENDS Integers, Sequences, FiniteSets, TLC

\* ------------------------------------------------------------------ bounds
\* number of generation requests handled in one run of the process
MaxReq == 2
\* longest byte string the provider returns
MaxLen == 1

\* asyncio.wait_for(..., timeout=240) of the serverless handler
TIMEOUT == 240

Requests == 1..MaxReq
\* the values uuid.uuid4() yields: as many as there are requests
TaskIds == 1..MaxReq
\* task_id: str = None
NoTask == 0
\* an identifier no submission was ever given
UnknownId == MaxReq + 1

\* ------------------------------------------------------------------ inputs
\* request.prompt: a string, as a sequence of characters; " " is whitespace
Prompts ==
    { <<>>,
      <<"a", "b">>,
      <<" ", "a", "b", " ", " ">>,
      <<" ", "c", "a", "t">> }

\* the bytes of a video: sequences of a byte value, up to MaxLen long
ByteVals == {201}
RECURSIVE BytesUpTo(_)
BytesUpTo(n) ==
    IF n = 0 THEN { <<>> }
    ELSE LET shorter == BytesUpTo(n - 1)
         IN  shorter \cup { Append(b, x) : b \in { s \in shorter : Len(s) = n - 1 }, x \in ByteVals }
ByteStrings == BytesUpTo(MaxLen)

\* str(e) of an exception raised by the provider call, as words
ExcMessages == { <<"connection", "reset">>, <<"Num_Frames", "unsupported">> }
NoExc == <<>>

\* what client.text_to_video(...) hands back (video_result), or that it raised:
\*   none      None
\*   bytes     a bytes buffer
\*   content   an object with a .content bytes attribute
\*   readable  an object with a byte-yielding read()
\*   path      a string path; exists says whether a file is there, data is its content
\*   raise     the call raised an exception whose str() is exc
Payload(shape, data, exists, exc) ==
    [shape |-> shape, data |-> data, exists |-> exists, exc |-> exc]
NoPayload == Payload("unset", <<>>, FALSE, NoExc)
ProviderOutcomes ==
    { Payload("none", <<>>, FALSE, NoExc) }
    \cup { Payload(s, d, TRUE, NoExc) : s \in {"bytes", "content", "readable", "path"}, d \in ByteStrings }
    \cup { Payload("path", <<>>, FALSE, NoExc) }
    \cup { Payload("raise", <<>>, FALSE, e) : e \in ExcMessages }

\* how long the provider call takes, in seconds
Latencies == {10, 241}

\* ------------------------------------------------------------------ strings
IsSpace(c) == c = " "

RECURSIVE LStrip(_)
LStrip(s) == IF s # <<>> /\ IsSpace(Head(s)) THEN LStrip(Tail(s)) ELSE s

RECURSIVE RStrip(_)
RStrip(s) ==
    IF s # <<>> /\ IsSpace(s[Len(s)]) THEN RStrip(SubSeq(s, 1, Len(s) - 1)) ELSE s

\* str.strip()
Strip(s) == RStrip(LStrip(s))

MinPromptLen == 3

\* `not request.prompt or len(request.prompt.strip()) < 3`
PromptRejected(prompt) == prompt = <<>> \/ Len(Strip(prompt)) < MinPromptLen

\* str.lower() on the words of an exception message
Lower(w) == IF w = "Num_Frames" THEN "num_frames" ELSE IF w = "Duration" THEN "duration" ELSE w

\* `"num_frames" in error_message.lower() or "duration" in error_message.lower()`
MentionsModelLimit(exc) ==
    \E i \in 1..Len(exc) : Lower(exc[i]) \in {"num_frames", "duration"}

\* ------------------------------------------------------------------ base64
\* base64.b64encode: 3 bytes -> 4 sextets, '=' padding (written 64)
Pad == 64

RECURSIVE B64Encode(_)
B64Encode(b) ==
    IF Len(b) = 0 THEN <<>>
    ELSE IF Len(b) = 1 THEN
        << b[1] \div 4, (b[1] % 4) * 16, Pad, Pad >>
    ELSE IF Len(b) = 2 THEN
        << b[1] \div 4, (b[1] % 4) * 16 + b[2] \div 16, (b[2] % 16) * 4, Pad >>
    ELSE
        << b[1] \div 4, (b[1] % 4) * 16 + b[2] \div 16,
           (b[2] % 16) * 4 + b[3] \div 64, b[3] % 64 >>
        \o B64Encode(SubSeq(b, 4, Len(b)))
NoData == <<Pad>>

\* ------------------------------------------------------------------ values
\* a message: a fixed prefix, a fixed text, and the words of an exception's str()
Msg(prefix, text, exc) == [prefix |-> prefix, text |-> text, exc |-> exc]
NoMsg == Msg("", "", NoExc)

\* a video location "/<mount>/<dir>/<name>[_<id>].mp4"
Url(mount, dir, name, id) == [mount |-> mount, dir |-> dir, name |-> name, id |-> id]
NoUrl == Url("", "", "", NoTask)

\* mock_video_url = "/video-static/generated_videos/mock_video.mp4"
MockUrl == Url("/video-static", "generated_videos", "mock_video", NoTask)

\* video_url = f"/video-static/generated_videos/generated_video_{task_id}.mp4"
VideoUrl(task_id) == Url("/video-static", "generated_videos", "generated_video", task_id)

\* the dict a generator returns; keys it does not set are NoUrl / NoData / NoMsg
Result(status, video_url, video_data, task_id, message) ==
    [status |-> status, video_url |-> video_url, video_data |-> video_data,
     task_id |-> task_id, message |-> message]
NoResult == Result("unset", NoUrl, NoData, NoTask, NoMsg)

\* what the client receives: the HTTP status code and the response body;
\* for an HTTPException the body's status is "http_error" and message is its detail
Response(code, status, video_url, video_data, task_id, message) ==
    [code |-> code, status |-> status, video_url |-> video_url,
     video_data |-> video_data, task_id |-> task_id, message |-> message]
NoResponse == Response(0, "unset", NoUrl, NoData, NoTask, NoMsg)

PromptTooShort == "Prompt must be at least 3 characters long"

\* raise HTTPException(status_code=400, detail="Prompt must be ...")
BadRequest == Response(400, "http_error", NoUrl, NoData, NoTask, Msg("", PromptTooShort, NoExc))

\* the handlers' `except Exception as e: raise HTTPException(status_code=500,
\* detail=f"Video generation failed: {str(e)}")`. HTTPException is an Exception,
\* so the 400 raised inside the try block arrives here.
InternalError(raised) ==
    Response(500, "http_error", NoUrl, NoData, NoTask,
             Msg("Video generation failed: ", raised.message.text, NoExc))

\* a record of generation_tasks; keys not yet set are NoUrl / NoMsg
Task(status, provider, created_at, prompt, video_url, error) ==
    [status |-> status, provider |-> provider, created_at |-> created_at,
     prompt |-> prompt, video_url |-> video_url, error |-> error]

\* table[key] = value (insert or overwrite)
Put(table, key, value) ==
    [k \in DOMAIN table \cup {key} |-> IF k = key THEN value ELSE table[k]]

\* ------------------------------------------------------------------ state
VARIABLES
    mode,              \* which deployment runs: "persistent" or "serverless"
    hf_token,          \* os.getenv("HF_TOKEN") is set
    client,            \* VideoGenerator.client is not None
    generation_tasks,  \* VideoGenerator.generation_tasks
    files,             \* static/generated_videos/generated_video_<id>.mp4 -> content
    now,               \* time.time(), as a logical clock
    req,               \* the generation requests, each a coroutine
    last_status,       \* the status endpoint's answer, while the request handled
                       \* last was a status lookup
    last_fetch         \* the answer to a GET on a returned video_url, while the
                       \* request handled last was that GET

vars == <<mode, hf_token, client, generation_tasks, files, now, req, last_status, last_fetch>>

\* a generation request: where its coroutine stands and what it holds
\* (duration is VideoGenerator.generate_video's local, 0 outside of it)
Request(pc, prompt, duration, task_id, payload, latency, result, response) ==
    [pc |-> pc, prompt |-> prompt, duration |-> duration, task_id |-> task_id,
     payload |-> payload, latency |-> latency, result |-> result, response |-> response]
IdleRequest == Request("idle", <<>>, 0, NoTask, NoPayload, 0, NoResult, NoResponse)

NoLookup == [task_id |-> NoTask, code |-> 0, result |-> NoResult]

\* no bytes served
NoContent == <<-1>>
NoFetch == [url |-> NoUrl, code |-> 0, content |-> NoContent]

\* the ids handed out so far
UsedIds == { req[r].task_id : r \in Requests } \ {NoTask}

NewTaskIdsAny(used) == TaskIds
\* task_id = str(uuid.uuid4()): an id never handed out before; identifiers are
\* opaque, so up to renaming it is the first unused one
NewTaskIds(used) ==
    LET unused == TaskIds \ used
    IN  { t \in unused : \A u \in unused : t <= u }

Durations == {1, 5, 30}
\* `duration = 5`: the caller's duration is overridden
ForcedDuration(duration) == 5

Init ==
    /\ mode \in {"persistent", "serverless"}
    /\ hf_token \in BOOLEAN
    \* __init__: client stays None without a token, or when InferenceClient(...) raises;
    \* the serverless handler builds its client per request
    /\ client \in IF mode = "persistent" /\ hf_token THEN BOOLEAN ELSE {FALSE}
    /\ generation_tasks = << >>
    /\ files = << >>
    /\ now = 0
    /\ req = [r \in Requests |-> IdleRequest]
    /\ last_status = NoLookup
    /\ last_fetch = NoFetch

\* ------------------------------------------------------------------ provider payloads
\* `if video_result:` -- None and b"" are falsy; an object is truthy whatever it
\* holds; a path string is non-empty
Truthy(p) ==
    CASE p.shape = "none"  -> FALSE
      [] p.shape = "bytes" -> Len(p.data) > 0
      [] OTHER             -> TRUE

FileNotFound == <<"errno2", "no", "such", "file">>

\* the file-writing chain of _generate_with_huggingface: what ends up in
\* static/generated_videos/generated_video_<id>.mp4, or the exception raised
SaveVideo(p) ==
    CASE p.shape = "content"  -> [raised |-> FALSE, content |-> p.data, exc |-> NoExc]
      [] p.shape = "bytes"    -> [raised |-> FALSE, content |-> p.data, exc |-> NoExc]
      [] p.shape = "readable" -> [raised |-> FALSE, content |-> p.data, exc |-> NoExc]
      [] OTHER                -> \* shutil.copy(str(video_result), video_path)
            IF p.exists THEN [raised |-> FALSE, content |-> p.data, exc |-> NoExc]
            ELSE [raised |-> TRUE, content |-> <<>>, exc |-> FileNotFound]

\* the video_data chain of generate_video_serverless; none |-> TRUE is None
ExtractData(p) ==
    CASE p.shape = "content"  -> [none |-> FALSE, data |-> p.data]
      [] p.shape = "bytes"    -> [none |-> FALSE, data |-> p.data]
      [] p.shape = "readable" -> [none |-> FALSE, data |-> p.data]
      [] p.shape = "path" /\ p.exists -> [none |-> FALSE, data |-> p.data]
      [] OTHER                -> [none |-> TRUE, data |-> <<>>]

\* ------------------------------------------------------------------ VideoGenerator
\* the record stored before the provider is called
ProcessingTask(prompt, t) == Task("processing", "huggingface", t, prompt, NoUrl, NoMsg)

MockTaskFailed(prompt, t) == Task("failed", "mock", t, prompt, MockUrl, NoMsg)
\* the record _mock_generation stores
MockTask(prompt, t) == Task("completed", "mock", t, prompt, MockUrl, NoMsg)

MockResultError(task_id) ==
    Result("error", NoUrl, NoData, task_id, Msg("", "Mock video generation failed", NoExc))
\* what _mock_generation returns
MockResult(task_id) ==
    Result("success", MockUrl, NoData, task_id,
           Msg("", "Mock video generated (add HF_TOKEN for real generation)", NoExc))

CompleteTaskNoUrl(task, video_url) == [task EXCEPT !.status = "completed"]
\* self.generation_tasks[task_id].update({"status": "completed", "video_url": video_url})
CompleteTask(task, video_url) == [task EXCEPT !.status = "completed", !.video_url = video_url]

FailTaskNoError(task, error) == [task EXCEPT !.status = "failed"]
\* self.generation_tasks[task_id].update({"status": "failed", "error": ...})
FailTask(task, error) == [task EXCEPT !.status = "failed", !.error = error]

\* the `except Exception as e` branch of _generate_with_huggingface
HFExceptResult(task_id, exc) ==
    Result("error", NoUrl, NoData, task_id,
           Msg("Hugging Face API error: ",
               IF MentionsModelLimit(exc)
               THEN "Model limitation: The Wan-AI model may only support 5-second videos. Original error: "
               ELSE "",
               exc))

\* _generate_with_huggingface after the provider call came back with `outcome`,
\* for the task `task` stored under task_id:
\* the record to store, the file written (if any) and the dict returned
HFFinish(task, task_id, outcome) ==
    IF outcome.shape = "raise" THEN
        [task |-> FailTask(task, Msg("", "", outcome.exc)), wrote |-> FALSE, content |-> <<>>,
         result |-> HFExceptResult(task_id, outcome.exc)]
    ELSE IF Truthy(outcome) THEN
        LET saved == SaveVideo(outcome) IN
        IF saved.raised THEN
            [task |-> FailTask(task, Msg("", "", saved.exc)), wrote |-> FALSE, content |-> <<>>,
             result |-> HFExceptResult(task_id, saved.exc)]
        ELSE
            [task |-> CompleteTask(task, VideoUrl(task_id)), wrote |-> TRUE,
             content |-> saved.content,
             result |-> Result("success", VideoUrl(task_id), NoData, task_id,
                               Msg("", "Video generated successfully using Hugging Face", NoExc))]
    ELSE
        [task |-> FailTask(task, Msg("", "No video content received", NoExc)),
         wrote |-> FALSE, content |-> <<>>,
         result |-> Result("error", NoUrl, NoData, task_id,
                           Msg("", "Video generation failed - no content received", NoExc))]

NotFound == Result("error", NoUrl, NoData, NoTask, Msg("", "Task not found", NoExc))

GetGenerationStatusNoCheck(tasks, task_id) ==
    Result("processing", NoUrl, NoData, task_id, Msg("", "Video is still being generated...", NoExc))
\* VideoGenerator.get_generation_status
GetGenerationStatus(tasks, task_id) ==
    IF task_id \notin DOMAIN tasks THEN NotFound
    ELSE LET task_info == tasks[task_id] IN
         CASE task_info.status = "completed" ->
                Result("success", task_info.video_url, NoData, task_id,
                       Msg("", "Video generation completed", NoExc))
           [] task_info.status = "processing" ->
                Result("processing", NoUrl, NoData, task_id,
                       Msg("", "Video is still being generated...", NoExc))
           [] task_info.status = "failed" ->
                Result("error", NoUrl, NoData, task_id,
                       \* task_info.get("error", "Video generation failed")
                       IF task_info.error = NoMsg
                       THEN Msg("", "Video generation failed", NoExc)
                       ELSE task_info.error)
           [] OTHER -> \* return task_info
                Result(task_info.status, task_info.video_url, NoData, NoTask, task_info.error)

\* ------------------------------------------------------------------ serverless generator
TimedOutNever(latency) == FALSE
\* asyncio.wait_for(..., timeout=240) raises TimeoutError
TimedOut(latency) == latency > TIMEOUT

\* generate_video_serverless without HF_TOKEN
NoTokenResult(task_id) ==
    Result("error", NoUrl, NoData, task_id, Msg("", "HF_TOKEN not configured", NoExc))

TimeoutResult(task_id) ==
    Result("error", NoUrl, NoData, task_id,
           Msg("", "Video generation timed out. Try a shorter/simpler prompt.", NoExc))

\* generate_video_serverless once the awaited provider call has ended
ServerlessFinish(task_id, outcome, latency) ==
    IF TimedOut(latency) THEN TimeoutResult(task_id)
    ELSE IF outcome.shape = "raise" THEN
        Result("error", NoUrl, NoData, task_id, Msg("Generation failed: ", "", outcome.exc))
    ELSE IF Truthy(outcome) THEN
        LET video_data == ExtractData(outcome) IN
        IF ~video_data.none /\ Len(video_data.data) > 0
        THEN Result("success", NoUrl, B64Encode(video_data.data), task_id,
                    Msg("", "Video generated successfully", NoExc))
        ELSE Result("error", NoUrl, NoData, task_id,
                    Msg("", "No video content received from AI model", NoExc))
    ELSE Result("error", NoUrl, NoData, task_id, Msg("", "No result from AI model", NoExc))

\* ------------------------------------------------------------------ request handlers
PersistentResponseAsIs(result) ==
    Response(200, result.status, result.video_url, NoData, result.task_id, result.message)
\* main.py generate_video: the VideoResponse built from the generator's result
PersistentResponse(result) ==
    IF result.status = "success"
    THEN Response(200, "success", result.video_url, NoData, result.task_id,
                  Msg("", "Video generated successfully", NoExc))
    ELSE Response(200, "processing", NoUrl, NoData, result.task_id,
                  Msg("", "Video generation in progress. Check status with task ID.", NoExc))

\* api/index.py generate_video: the VideoResponse built from the generator's result
ServerlessResponse(result) ==
    IF result.status = "success"
    THEN Response(200, "success", NoUrl, result.video_data, result.task_id,
                  Msg("", "Video generated successfully (serverless)", NoExc))
    ELSE Response(200, "error", NoUrl, NoData, result.task_id, result.message)

\* ------------------------------------------------------------------ static files
\* app.mount("/static", StaticFiles(directory="static"), name="video_static")
VideoMount == "/static"

\* video_path = f"static/generated_videos/{video_filename}": the directory under
\* "static" and the file name stem the generator writes to
VideoDir == "generated_videos"
VideoStem == "generated_video"

\* the mounts of the front-end build: /css, /js, /media, /react-static
ReactMounts == {"/css", "/js", "/media", "/react-static"}

NotFound404 == [code |-> 404, content |-> NoContent]

\* GET on the location `url`, `stored` being the video files on disk:
\* the routes and mounts of main.py in their order
ServeGet(url, frontend_build, stored) ==
    IF url.mount = VideoMount THEN
        \* StaticFiles(directory="static"): static/<dir>/<name>_<id>.mp4
        IF url.dir = VideoDir /\ url.name = VideoStem /\ url.id \in DOMAIN stored
        THEN [code |-> 200, content |-> stored[url.id]]
        ELSE NotFound404
    ELSE IF frontend_build /\ url.mount \in ReactMounts THEN
        \* the front-end's own css / js / media files: no video among them
        NotFound404
    ELSE IF frontend_build THEN
        \* /{filename} takes one-segment paths only; serve_react_app raises 404
        \* for a path whose last segment has a "." (generated_video_<id>.mp4)
        NotFound404
    ELSE
        \* no route matches
        NotFound404

\* ------------------------------------------------------------------ actions
\* POST /api/generate-video, up to the coroutine's first await:
\* validation, then VideoGenerator.generate_video up to the provider call
\* (provider branch) or up to asyncio.sleep (mock branch)
GenerateVideo(r, prompt, duration) ==
    /\ mode = "persistent"
    /\ req[r].pc = "idle"
    /\ IF PromptRejected(prompt) THEN
            /\ req' = [req EXCEPT ![r] =
                    Request("done", prompt, 0, NoTask, NoPayload, 0, NoResult,
                            InternalError(BadRequest))]
            /\ UNCHANGED <<generation_tasks, now>>
       ELSE \E task_id \in NewTaskIds(UsedIds) :
            IF client /\ hf_token THEN
                /\ generation_tasks' = Put(generation_tasks, task_id, ProcessingTask(prompt, now))
                /\ now' = now + 1
                /\ req' = [req EXCEPT ![r] =
                        Request("provider", prompt, ForcedDuration(duration), task_id,
                                NoPayload, 0, NoResult, NoResponse)]
            ELSE
                /\ req' = [req EXCEPT ![r] =
                        Request("sleep", prompt, ForcedDuration(duration), task_id,
                                NoPayload, 0, NoResult, NoResponse)]
                /\ UNCHANGED <<generation_tasks, now>>
    /\ last_status' = NoLookup
    /\ last_fetch' = NoFetch
    /\ UNCHANGED <<mode, hf_token, client, files>>

\* the provider call of request r ends with `outcome`; the rest of
\* _generate_with_huggingface and of the handler runs
ProviderReturn(r, outcome) ==
    /\ mode = "persistent"
    /\ req[r].pc = "provider"
    /\ LET task_id == req[r].task_id
           fin == HFFinish(generation_tasks[task_id], task_id, outcome)
       IN  /\ generation_tasks' = Put(generation_tasks, task_id, fin.task)
           /\ files' = IF fin.wrote THEN Put(files, task_id, fin.content) ELSE files
           /\ req' = [req EXCEPT ![r] =
                   [@ EXCEPT !.pc = "done", !.payload = outcome, !.result = fin.result,
                             !.response = PersistentResponse(fin.result)]]
    /\ last_status' = NoLookup
    /\ last_fetch' = NoFetch
    /\ UNCHANGED <<mode, hf_token, client, now>>

\* asyncio.sleep(3) of request r is over; the rest of _mock_generation and of
\* the handler runs
MockFinish(r) ==
    /\ mode = "persistent"
    /\ req[r].pc = "sleep"
    /\ LET task_id == req[r].task_id
           result == MockResult(task_id)
       IN  /\ generation_tasks' = Put(generation_tasks, task_id, MockTask(req[r].prompt, now))
           /\ now' = now + 1
           /\ req' = [req EXCEPT ![r] =
                   [@ EXCEPT !.pc = "done", !.result = result,
                             !.response = PersistentResponse(result)]]
    /\ last_status' = NoLookup
    /\ last_fetch' = NoFetch
    /\ UNCHANGED <<mode, hf_token, client, files>>

\* GET /api/video-status/{task_id}
GetVideoStatus(task_id) ==
    /\ mode = "persistent"
    /\ last_status' = [task_id |-> task_id, code |-> 200,
                       result |-> GetGenerationStatus(generation_tasks, task_id)]
    /\ last_fetch' = NoFetch
    /\ UNCHANGED <<mode, hf_token, client, generation_tasks, files, now, req>>

\* GET <video_url> by the client of request r, which was answered with success;
\* frontend_build says whether the server was started with a front-end build
FetchVideo(r, frontend_build) ==
    /\ mode = "persistent"
    /\ req[r].pc = "done"
    /\ req[r].response.status = "success"
    /\ LET url == req[r].response.video_url
           got == ServeGet(url, frontend_build, files)
       IN  last_fetch' = [url |-> url, code |-> got.code, content |-> got.content]
    /\ last_status' = NoLookup
    /\ UNCHANGED <<mode, hf_token, client, generation_tasks, files, now, req>>

\* POST /generate-video of the serverless handler, up to its first await
ServerlessGenerateVideo(r, prompt, duration) ==
    /\ mode = "serverless"
    /\ req[r].pc = "idle"
    /\ IF PromptRejected(prompt) THEN
            req' = [req EXCEPT ![r] =
                    Request("done", prompt, 0, NoTask, NoPayload, 0, NoResult,
                            InternalError(BadRequest))]
       ELSE \E task_id \in NewTaskIds(UsedIds) :
            IF ~hf_token THEN
                req' = [req EXCEPT ![r] =
                        Request("done", prompt, 0, task_id, NoPayload, 0,
                                NoTokenResult(task_id),
                                ServerlessResponse(NoTokenResult(task_id)))]
            ELSE
                req' = [req EXCEPT ![r] =
                        Request("provider", prompt, 0, task_id, NoPayload, 0,
                                NoResult, NoResponse)]
    /\ last_status' = NoLookup
    /\ last_fetch' = NoFetch
    /\ UNCHANGED <<mode, hf_token, client, generation_tasks, files, now>>

\* the awaited provider call of serverless request r ends after `latency`
\* seconds with `outcome`, or wait_for gives up on it
ServerlessProviderReturn(r, outcome, latency) ==
    /\ mode = "serverless"
    /\ req[r].pc = "provider"
    /\ LET result == ServerlessFinish(req[r].task_id, outcome, latency)
       IN  req' = [req EXCEPT ![r] =
                   [@ EXCEPT !.pc = "done",
                             !.payload = IF TimedOut(latency) THEN NoPayload ELSE outcome,
                             !.latency = latency, !.result = result,
                             !.response = ServerlessResponse(result)]]
    /\ last_status' = NoLookup
    /\ last_fetch' = NoFetch
    /\ UNCHANGED <<mode, hf_token, client, generation_tasks, files, now>>

Next ==
    \/ \E r \in Requests, prompt \in Prompts, duration \in Durations :
            GenerateVideo(r, prompt, duration)
    \/ \E r \in Requests, outcome \in ProviderOutcomes : ProviderReturn(r, outcome)
    \/ \E r \in Requests : MockFinish(r)
    \/ \E task_id \in TaskIds \cup {UnknownId} : GetVideoStatus(task_id)
    \/ \E r \in Requests, frontend_build \in BOOLEAN : FetchVideo(r, frontend_build)
    \/ \E r \in Requests, prompt \in Prompts, duration \in Durations :
            ServerlessGenerateVideo(r, prompt, duration)
    \/ \E r \in Requests, outcome \in ProviderOutcomes, latency \in Latencies :
            ServerlessProviderReturn(r, outcome, latency)

Spec == Init /\ [][Next]_vars

\* the event loop resumes every coroutine whose await has completed: the
\* mock's sleep ends after 3 seconds
LiveSpec == Spec /\ \A r \in Requests : WF_vars(MockFinish(r))

\* ------------------------------------------------------------------ properties
Done(r) == req[r].pc = "done"

\* the request's prompt has trimmed length < 3
ShortPrompt(r) == Len(Strip(req[r].prompt)) < 3

Terminal(task) == task.status \in {"completed", "failed"}

\* C1: every finished request whose prompt has trimmed length < 3 was answered
\* with HTTP 400 "Prompt must be at least 3 characters long", without the
\* generator being invoked and without a task being added.
C1_ShortPromptIsClientError ==
    \A r \in Requests :
        (Done(r) /\ ShortPrompt(r)) =>
            /\ req[r].response.code = 400
            /\ req[r].response.message.text = PromptTooShort
            /\ req[r].task_id = NoTask
            /\ req[r].result = NoResult
            /\ \A t \in DOMAIN generation_tasks : generation_tasks[t].prompt # req[r].prompt

\* C2: in every step, a task that is completed or failed keeps its whole
\* record, and a processing task stays processing or becomes completed or
\* failed; no other status exists.
C2_TerminalTasksFrozen ==
    [][ \A t \in DOMAIN generation_tasks :
            /\ t \in DOMAIN generation_tasks'
            /\ Terminal(generation_tasks[t]) => generation_tasks'[t] = generation_tasks[t]
            /\ generation_tasks[t].status \in {"processing", "completed", "failed"}
            /\ generation_tasks'[t].status \in {"processing", "completed", "failed"}
      ]_vars

\* a completed and a failed task stand side by side, so steps were taken after
\* the first of them became terminal
C2_Witness ==
    \E t, u \in DOMAIN generation_tasks :
        /\ generation_tasks[t].status = "completed"
        /\ generation_tasks[u].status = "failed"

\* C3: once generate_video has returned success with task id t and video
\* reference u, no other submission has id t, t is in the task table, and a
\* status lookup on t answers success with the same u.
C3_SuccessIsResolvable ==
    \A r \in Requests :
        (mode = "persistent" /\ Done(r) /\ req[r].result.status = "success") =>
            LET t == req[r].result.task_id
                u == req[r].result.video_url
            IN  /\ t # NoTask
                /\ \A q \in Requests \ {r} : req[q].task_id # t
                /\ t \in DOMAIN generation_tasks
                /\ GetGenerationStatus(generation_tasks, t).status = "success"
                /\ GetGenerationStatus(generation_tasks, t).video_url = u
                /\ GetGenerationStatus(generation_tasks, t).task_id = t
                /\ last_status.task_id = t =>
                        /\ last_status.result.status = "success"
                        /\ last_status.result.video_url = u

\* a status lookup on the id of a successful submission has just been answered,
\* while another submission holds another id
C3_Witness ==
    \E r, q \in Requests :
        /\ mode = "persistent" /\ Done(r) /\ req[r].result.status = "success"
        /\ last_status.task_id = req[r].result.task_id
        /\ q # r /\ req[q].task_id # NoTask

\* C4: a status lookup on an identifier that is not a key of the task table
\* answers {status: error, message: "Task not found"} with HTTP 200 and leaves
\* the task table and the files as they were.
C4_UnknownIdNotFound ==
    [][ (last_status'.task_id # NoTask /\ last_status'.task_id \notin DOMAIN generation_tasks) =>
            /\ last_status'.result = NotFound
            /\ last_status'.code = 200
            /\ generation_tasks' = generation_tasks
            /\ files' = files
      ]_vars

\* the lookup was on the id of a mock submission that is still in its delay
C4_Witness ==
    \E r \in Requests :
        /\ req[r].pc = "sleep"
        /\ last_status.task_id = req[r].task_id
        /\ last_status.result = NotFound

\* without a client, generate_video runs the mock branch
MockMode == mode = "persistent" /\ ~client

\* C5: without a client, every generate_video call returns; when it has, its
\* result is success with the placeholder reference and its task record is
\* completed with provider mock; no task is ever failed (or processing).
C5_MockAlwaysCompletes ==
    /\ \A r \in Requests : (MockMode /\ req[r].pc = "sleep") ~> Done(r)
    /\ [](MockMode =>
            /\ \A r \in Requests :
                (Done(r) /\ req[r].task_id # NoTask) =>
                    /\ req[r].result.status = "success"
                    /\ req[r].result.task_id = req[r].task_id
                    /\ req[r].result.video_url.name = "mock_video"
                    /\ req[r].task_id \in DOMAIN generation_tasks
                    /\ generation_tasks[req[r].task_id].status = "completed"
                    /\ generation_tasks[req[r].task_id].provider = "mock"
                    /\ generation_tasks[req[r].task_id].video_url = req[r].result.video_url
            /\ \A t \in DOMAIN generation_tasks : generation_tasks[t].status = "completed")

\* with a token but no client, every request has gone through the mock
C5_Witness ==
    /\ MockMode /\ hf_token
    /\ \A r \in Requests : Done(r) /\ req[r].result.status = "success"

\* C6 as stated: in both deployments, a finished request with a valid prompt
\* and no HF_TOKEN has a success result and no error response.
C6_NoTokenNeverError ==
    \A r \in Requests :
        (~hf_token /\ Done(r) /\ ~ShortPrompt(r)) =>
            /\ req[r].result.status = "success"
            /\ req[r].response.status = "success"

\* C6 as amended: without HF_TOKEN the persistent Generator falls back to mock
\* generation and the request succeeds; the serverless handler has no fallback
\* and answers with the error "HF_TOKEN not configured".
C6_NoTokenFallbackPersistentOnly ==
    \A r \in Requests :
        (~hf_token /\ Done(r) /\ ~ShortPrompt(r)) =>
            IF mode = "persistent" THEN
                /\ req[r].result.status = "success"
                /\ req[r].response.status = "success"
                /\ req[r].response.code = 200
                /\ generation_tasks[req[r].task_id].provider = "mock"
            ELSE
                /\ req[r].result.status = "error"
                /\ req[r].result.message.text = "HF_TOKEN not configured"
                /\ req[r].response.status = "error"
                /\ req[r].response.message = req[r].result.message

\* a request with a valid prompt has finished in the persistent server
\* running without HF_TOKEN
C6_Witness ==
    \E r \in Requests :
        mode = "persistent" /\ ~hf_token /\ Done(r) /\ ~ShortPrompt(r)

\* the provider call of request r came back with a payload of one of the four
\* accepted shapes (a path being that of an existing file)
Delivered(r) ==
    /\ Done(r)
    /\ req[r].payload.shape \in {"bytes", "content", "readable", "path"}
    /\ req[r].payload.exists

\* what was stored for request r: the content of its video file in the
\* file-backed mode, the inline base64 text in the serverless mode; <<-1>> if none
Artifact(r) ==
    IF mode = "persistent"
    THEN IF req[r].task_id \in DOMAIN files THEN files[req[r].task_id] ELSE <<-1>>
    ELSE IF req[r].result.video_data # NoData THEN req[r].result.video_data ELSE <<-1>>

\* C7: two provider payloads of accepted shapes that carry the same bytes end
\* in the same outcome and the same stored artifact.
C7_SameBytesSameArtifact ==
    \A r, q \in Requests :
        (Delivered(r) /\ Delivered(q) /\ req[r].payload.data = req[q].payload.data) =>
            /\ req[r].result.status = req[q].result.status
            /\ Artifact(r) = Artifact(q)

\* C8 as stated: a serverless provider call that ran past the timeout returns
\* an error result with the task's id and the timeout message, and the task is
\* recorded as failed with that message.
C8_TimeoutRecordedFailed ==
    \A r \in Requests :
        (mode = "serverless" /\ Done(r) /\ req[r].latency > TIMEOUT) =>
            /\ req[r].result.status = "error"
            /\ req[r].result.task_id = req[r].task_id
            /\ req[r].result.message = TimeoutResult(req[r].task_id).message
            /\ req[r].task_id \in DOMAIN generation_tasks
            /\ generation_tasks[req[r].task_id].status = "failed"
            /\ generation_tasks[req[r].task_id].error = req[r].result.message

\* C8 as amended: a serverless provider call that ran past the timeout returns
\* an error result with the task's id and the timeout message, which the
\* endpoint passes on as an error response; the serverless handler keeps no
\* task table, so nothing is recorded.
C8_TimeoutIsErrorResult ==
    \A r \in Requests :
        (mode = "serverless" /\ Done(r) /\ req[r].latency > TIMEOUT) =>
            /\ req[r].result.status = "error"
            /\ req[r].task_id # NoTask
            /\ req[r].result.task_id = req[r].task_id
            /\ req[r].result.message.text =
                    "Video generation timed out. Try a shorter/simpler prompt."
            /\ req[r].result.video_data = NoData
            /\ req[r].response.code = 200
            /\ req[r].response.status = "error"
            /\ req[r].response.task_id = req[r].task_id
            /\ req[r].response.message = req[r].result.message
            /\ generation_tasks = << >>
            /\ files = << >>

\* a serverless request whose provider call took longer than the timeout
C8_Witness ==
    \E r \in Requests : mode = "serverless" /\ Done(r) /\ req[r].latency > TIMEOUT

\* C9: in every step, a failed task keeps its record (status failed and error
\* text included), and a submission made in that step gets another id and,
\* when it stores a record, stores it under that other id.
C9_FailedTaskNotRetried ==
    [][ \A t \in DOMAIN generation_tasks :
            generation_tasks[t].status = "failed" =>
                /\ t \in DOMAIN generation_tasks'
                /\ generation_tasks'[t] = generation_tasks[t]
                /\ \A r \in Requests :
                        (req[r].pc = "idle" /\ req'[r].task_id # NoTask) =>
                            /\ req'[r].task_id # t
                            /\ \A q \in Requests \ {r} : req[q].task_id # req'[r].task_id
      ]_vars

\* a task has failed, and a later submission with the same prompt has its own
\* record, completed, beside it
C9_Witness ==
    \E t, u \in DOMAIN generation_tasks :
        /\ t # u
        /\ generation_tasks[t].status = "failed"
        /\ generation_tasks[t].error # NoMsg
        /\ generation_tasks[u].prompt = generation_tasks[t].prompt
        /\ generation_tasks[u].created_at > generation_tasks[t].created_at
        /\ generation_tasks[u].status = "completed"

\* C10: in the persistent endpoint the response says success exactly when the
\* generator's result does; an error result is answered with HTTP 200, status
\* processing and the task id, while a status lookup on that id answers error.
C10_ErrorAnsweredAsProcessing ==
    \A r \in Requests :
        (mode = "persistent" /\ Done(r) /\ req[r].result # NoResult) =>
            /\ req[r].response.status = "success" <=> req[r].result.status = "success"
            /\ req[r].result.status = "error" =>
                    /\ req[r].response.code = 200
                    /\ req[r].response.status = "processing"
                    /\ req[r].response.task_id = req[r].result.task_id
                    /\ req[r].response.task_id # NoTask
                    /\ GetGenerationStatus(generation_tasks, req[r].response.task_id).status = "error"
                    /\ last_status.task_id = req[r].response.task_id =>
                            last_status.result.status = "error"

\* the generator returned an error, the response said processing, and a status
\* lookup on the task id has just answered error
C10_Witness ==
    \E r \in Requests :
        /\ mode = "persistent" /\ Done(r)
        /\ req[r].result.status = "error"
        /\ req[r].response.status = "processing"
        /\ last_status.task_id = req[r].response.task_id
        /\ last_status.result.status = "error"

\* the provider call of request r came back with an empty or missing payload:
\* None, b"", or an object whose .content / read() yields no bytes
EmptyPayload(r) ==
    /\ Done(r)
    /\ \/ req[r].payload.shape = "none"
       \/ /\ req[r].payload.shape \in {"bytes", "content", "readable"}
          /\ req[r].payload.data = <<>>

\* C11: an empty or missing provider payload gives an error result, and in the
\* persistent generator it leaves the task failed with an error text and
\* without a video reference, never completed.
C11_EmptyPayloadFails ==
    \A r \in Requests :
        EmptyPayload(r) =>
            /\ req[r].result.status = "error"
            /\ req[r].result.video_url = NoUrl
            /\ req[r].result.video_data = NoData
            /\ mode = "persistent" =>
                    /\ generation_tasks[req[r].task_id].status = "failed"
                    /\ generation_tasks[req[r].task_id].error # NoMsg
                    /\ generation_tasks[req[r].task_id].video_url = NoUrl
                    /\ req[r].task_id \notin DOMAIN files

\* str(e) of the exception raised in the provider branch of request r, by the
\* provider call or while the payload was stored; NoExc if none was raised
RaisedIn(r) ==
    IF req[r].payload.shape = "raise" THEN req[r].payload.exc
    ELSE IF req[r].payload.shape = "path" /\ ~req[r].payload.exists THEN FileNotFound
    ELSE NoExc

\* C12: in the persistent generator, an exception raised after the task was
\* recorded as processing leaves the task failed with the exception's message
\* as its error and without a video reference; generate_video returns an error
\* result with the same task id (the endpoint answers, it does not fail), and
\* a status lookup on that id answers error with that message.
C12_ExceptionFailsTask ==
    \A r \in Requests :
        (mode = "persistent" /\ Done(r) /\ RaisedIn(r) # NoExc) =>
            LET t == req[r].task_id IN
            /\ t \in DOMAIN generation_tasks
            /\ generation_tasks[t].status = "failed"
            /\ generation_tasks[t].error = Msg("", "", RaisedIn(r))
            /\ generation_tasks[t].video_url = NoUrl
            /\ t \notin DOMAIN files
            /\ req[r].result.status = "error"
            /\ req[r].result.task_id = t
            /\ req[r].result.video_url = NoUrl
            /\ req[r].result.message.exc = RaisedIn(r)
            /\ req[r].response.code = 200
            /\ GetGenerationStatus(generation_tasks, t).status = "error"
            /\ GetGenerationStatus(generation_tasks, t).message = Msg("", "", RaisedIn(r))
            /\ last_status.task_id = t =>
                    /\ last_status.result.status = "error"
                    /\ last_status.result.message.exc = RaisedIn(r)

\* both kinds of exception have happened, one in the provider call and one
\* while storing, and the status of one of the tasks has just been looked up
C12_Witness ==
    \E r, q \in Requests :
        /\ mode = "persistent" /\ Done(r) /\ Done(q)
        /\ req[r].payload.shape = "raise"
        /\ req[q].payload.shape = "path" /\ ~req[q].payload.exists
        /\ last_status.task_id = req[r].task_id
        /\ last_status.result.status = "error"

\* the step creates the record of task t or changes it
Written(t) ==
    /\ t \in DOMAIN generation_tasks'
    /\ t \notin DOMAIN generation_tasks \/ generation_tasks'[t] # generation_tasks[t]

\* C13: whatever the interleaving, a step that creates or changes the record
\* of task t is a step of the one request that was given the id t, and of no
\* other request; and while the provider call for t is in flight, a status
\* lookup on t answers processing.
C13_OnlyOwnerWrites ==
    /\ [][ \A t \in TaskIds :
                Written(t) =>
                    \E r \in Requests :
                        /\ req'[r].task_id = t
                        /\ req'[r] # req[r]
                        /\ \A q \in Requests \ {r} :
                                req'[q] = req[q] /\ req[q].task_id # t
         ]_vars
    /\ [](\A r \in Requests :
            (mode = "persistent" /\ req[r].pc = "provider") =>
                /\ GetGenerationStatus(generation_tasks, req[r].task_id).status = "processing"
                /\ GetGenerationStatus(generation_tasks, req[r].task_id).task_id = req[r].task_id
                /\ last_status.task_id = req[r].task_id =>
                        last_status.result.status = "processing")

\* two provider calls are in flight at once, and the status of one of the two
\* tasks has just been looked up
C13_Witness ==
    \E r, q \in Requests :
        /\ r # q
        /\ mode = "persistent"
        /\ req[r].pc = "provider" /\ req[q].pc = "provider"
        /\ last_status.task_id = req[r].task_id
        /\ last_status.result.status = "processing"

\* request r was answered with the location of a video file the generator
\* wrote for its task
FileBacked(r) ==
    /\ mode = "persistent" /\ Done(r)
    /\ req[r].response.status = "success"
    /\ req[r].task_id \in DOMAIN files
    /\ generation_tasks[req[r].task_id].status = "completed"

\* C14: the location returned for a completed task with a video file lies
\* under the mount that serves the directory the file was written to, and a GET
\* on it answers 200 with the content of that task's file.
C14_VideoUrlRetrievable ==
    \A r \in Requests :
        FileBacked(r) =>
            /\ req[r].response.video_url = generation_tasks[req[r].task_id].video_url
            /\ req[r].response.video_url.dir = VideoDir
            /\ req[r].response.video_url.id = req[r].task_id
            /\ last_fetch.url = req[r].response.video_url =>
                    /\ last_fetch.url.mount = VideoMount
                    /\ last_fetch.code = 200
                    /\ last_fetch.content = files[req[r].task_id]

====
